---- MODULE Spec2Model ----
(***************************************************************************)
(* Model of the IndusGlyphs transliteration pipeline.                      *)
(*                                                                         *)
(*   translate.py   IndusTextProcessor: the Sign Table (xlit_map) is built *)
(*                  from sign rows, then every inscription text is decoded *)
(*                  by xlitize and canonicalised by canonize.              *)
(*   frequency.py   IndusAnalyzer: substring -> codepoint frequency table  *)
(*                  and its sorted export.                                 *)
(*                                                                         *)
(* Python strings are sequences of one-character strings, so that regular  *)
(* expressions, split, join and replace are computed character by          *)
(* character.  A character produced by chr(n) is represented by its code   *)
(* point n.                                                                *)
(*                                                                         *)
(* Left out: file input and output, logging, the Sanskrit columns, the     *)
(* statistics, canon_map and the 'regex' field of a sign, none of which    *)
(* xlitize, canonize or the frequency table read.  DataFrame.sort_values   *)
(* on several columns is a stable sort.                                    *)
(***************************************************************************)
EXTENDS Integers, Sequences, FiniteSets, TLC

(***************************************************************************)
(* Bounds of the model.                                                    *)
(***************************************************************************)
\* largest number of items (sign ids or break markers) of an inscription text
MaxSigns == 3

\* largest number of rows of indus-translated.csv the analyzer reads
MaxRecords == 2

(***************************************************************************)
(* Generic string helpers.                                                 *)
(***************************************************************************)
Digits == {"0", "1", "2", "3", "4", "5", "6", "7", "8", "9"}

\* str.isdigit() of a character
IsDigit(c) == c \in Digits

\* str.isdigit(): non-empty and every character a digit
IsDigitStr(s) == Len(s) > 0 /\ \A i \in 1..Len(s) : IsDigit(s[i])

DigitVal(c) ==
    CASE c = "0" -> 0 [] c = "1" -> 1 [] c = "2" -> 2 [] c = "3" -> 3
      [] c = "4" -> 4 [] c = "5" -> 5 [] c = "6" -> 6 [] c = "7" -> 7
      [] c = "8" -> 8 [] c = "9" -> 9

RECURSIVE ToInt(_)
\* int(s) of a digit string
ToInt(s) ==
    IF s = <<>> THEN 0
    ELSE 10 * ToInt(SubSeq(s, 1, Len(s) - 1)) + DigitVal(s[Len(s)])

\* s[::-1]
Reverse(s) == [i \in 1..Len(s) |-> s[Len(s) + 1 - i]]

\* s.endswith(suffix)
EndsWith(s, suffix) ==
    /\ Len(s) >= Len(suffix)
    /\ SubSeq(s, Len(s) - Len(suffix) + 1, Len(s)) = suffix

RECURSIVE SplitFrom(_, _, _)
SplitFrom(s, i, cur) ==
    IF i > Len(s) THEN <<cur>>
    ELSE IF s[i] = "-" THEN <<cur>> \o SplitFrom(s, i + 1, <<>>)
    ELSE SplitFrom(s, i + 1, Append(cur, s[i]))

\* s.split('-'): the empty string splits into one empty token
Split(s) == SplitFrom(s, 1, <<>>)

RECURSIVE Join(_)
\* '-'.join(tokens)
Join(tokens) ==
    IF tokens = <<>> THEN <<>>
    ELSE IF Len(tokens) = 1 THEN tokens[1]
    ELSE tokens[1] \o <<"-">> \o Join(Tail(tokens))

RECURSIVE FindAllFrom(_, _, _)
FindAllFrom(s, i, cur) ==
    IF i > Len(s) THEN (IF cur = <<>> THEN <<>> ELSE <<cur>>)
    ELSE IF IsDigit(s[i]) THEN FindAllFrom(s, i + 1, Append(cur, s[i]))
    ELSE (IF cur = <<>> THEN <<>> ELSE <<cur>>) \o FindAllFrom(s, i + 1, <<>>)

\* re.findall(r'(\d+)', s): the maximal digit runs, left to right
FindAll(s) == FindAllFrom(s, 1, <<>>)

(***************************************************************************)
(* Inputs: sign rows of xlits.csv and inscription texts.                   *)
(***************************************************************************)
\* the 'sign' column of the rows; the empty string is a row without a sign
SignIds == {<<"1">>, <<"2">>}

\* the 'canonical' column of the row of `sign`: blank, the sign itself, or a
\* hyphen-delimited list of ids
CanonField(sign, kind) ==
    CASE kind = "blank" -> <<>>
      [] kind = "self" -> sign
      [] kind = "list" -> <<"1", "-", "2">>

\* the row has no 'xlit' key: xlits.csv has no such column
Absent == <<"absent">>

\* The rows a sign can have, as <<xlit, kind of canonical, random>>.  The
\* xlit column is a syllable, a bare vowel, a unit ending in "an", the "."
\* placeholder or a blank cell, each with each of two characters of
\* TransliterationConfig.slp that make_random may draw.  The canonical column
\* is read by canonize alone and xlit and random by xlitize alone, so it takes
\* its three kinds in turn instead of multiplying the rows.  The last row is
\* one of a file without the xlit column.
RowShapes ==
    {<<<<"k", "a">>, "self", <<"k">>>>, <<<<"k", "a">>, "blank", <<"i">>>>,
     <<<<"i">>, "list", <<"k">>>>, <<<<"i">>, "self", <<"i">>>>,
     <<<<"a", "n">>, "blank", <<"k">>>>, <<<<"a", "n">>, "list", <<"i">>>>,
     <<<<".">>, "self", <<"k">>>>, <<<<".">>, "blank", <<"i">>>>,
     <<<<>>, "list", <<"k">>>>, <<<<>>, "self", <<"i">>>>,
     <<Absent, "self", <<"k">>>>}

\* TransliterationConfig.fullrandom
fullrandom == FALSE

\* an inscription text: items (sign ids, or the break marker "/") joined by "-"
TextItems == {<<"1">>, <<"2">>, <<"9", "9">>, <<"/">>}

ItemSeqs == UNION {[1..n -> TextItems] : n \in 0..MaxSigns}

Texts == {Join(items) : items \in ItemSeqs}

\* 0xE000, the first private-use code point
PUA == 57344

\* faulty variant: three placeholders instead of four
BreakPadding_Three ==
    <<"-", "9", "9", "9", "-", "9", "9", "9", "-", "9", "9", "9", "-">>

\* the text that replaces "/" in canonize
BreakPadding ==
    <<"-", "9", "9", "9", "-", "9", "9", "9", "-", "9", "9", "9", "-",
      "9", "9", "9", "-">>

\* '⚄ random: ', the prefix of the random rendering
RandomPrefix == <<"⚄", " ", "r", "a", "n", "d", "o", "m", ":", " ">>

VARIABLES
    xlit_map,       \* IndusTextProcessor.xlit_map: sign id -> SignData
    pc,             \* position of process_data
    text,           \* el['text'] of the inscription being processed
    results,        \* xlitize: the reversed list of sign ids
    xi,             \* xlitize: index in results of the next sign of the loop
    str_result,     \* xlitize: accumulated spelling
    rnd_result,     \* xlitize: accumulated random spelling
    regex_result,   \* xlitize: accumulated search pattern
    xres,           \* the value xlitize returned
    cres,           \* the value canonize returned
    fpc,            \* position of IndusAnalyzer.process
    nrows,          \* number of rows of df that process_frequency_mapping has read
    frow,           \* the row of df read last
    substring_unicode_frequency,    \* IndusAnalyzer.substring_unicode_frequency
    frequency_df    \* the value create_frequency_dataframe returned

\* the state of translate.py
tvars ==
    <<xlit_map, pc, text, results, xi, str_result, rnd_result, regex_result,
      xres, cres>>

\* the state of frequency.py
fvars == <<fpc, nrows, frow, substring_unicode_frequency, frequency_df>>

vars == <<tvars, fvars>>

\* the empty result of xlitize
EmptyResult == [str |-> <<>>, description |-> <<>>, random |-> <<>>, regex |-> <<>>]

\* the empty result of canonize
EmptyCanon == [kind |-> "dict", str |-> <<>>, canon |-> <<>>, row |-> <<>>]

(***************************************************************************)
(* Sign Table: the loop over xlits of process_data.                        *)
(***************************************************************************)
\* self.xlit_map[sign] = {...}
SignData(xlit, canonical, random) ==
    [xlit |-> xlit, canonical |-> canonical, random |-> random]

PutSign(map, sign, data) ==
    [s \in DOMAIN map \cup {sign} |-> IF s = sign THEN data ELSE map[s]]

\* element.get('xlit', '.'): the default is for a row without the key, a
\* blank cell is a value of the key
GetXlit(cell) == IF cell = Absent THEN <<".">> ELSE cell

AddSign(sign, xlit, canonical, random) ==
    /\ pc \in {"start", "load"}
    /\ sign \notin DOMAIN xlit_map
    /\ xlit_map' = IF sign = <<>> THEN xlit_map
                   ELSE PutSign(xlit_map, sign,
                                SignData(GetXlit(xlit), canonical, random))
    /\ pc' = "load"
    /\ UNCHANGED <<text, results, xi, str_result, rnd_result, regex_result,
                   xres, cres>>
    /\ UNCHANGED fvars

(***************************************************************************)
(* xlitize                                                                 *)
(***************************************************************************)
\* re.search(r'([iu]|an|as)$', s)
EndsVowelClass(s) ==
    \/ EndsWith(s, <<"i">>)
    \/ EndsWith(s, <<"u">>)
    \/ EndsWith(s, <<"a", "n">>)
    \/ EndsWith(s, <<"a", "s">>)

\* re.search(r'([iueofFxX]|an|as)$', s)
EndsVowelClassRnd(s) ==
    \/ \E c \in {"i", "u", "e", "o", "f", "F", "x", "X"} : EndsWith(s, <<c>>)
    \/ EndsWith(s, <<"a", "n">>)
    \/ EndsWith(s, <<"a", "s">>)

\* re.search(r'([iueo]|an|as)$', s)
EndsVowelClassRndFinal(s) ==
    \/ \E c \in {"i", "u", "e", "o"} : EndsWith(s, <<c>>)
    \/ EndsWith(s, <<"a", "n">>)
    \/ EndsWith(s, <<"a", "s">>)

\* re.match(r'^[aiu]$', unit)
IsBareVowel(unit) == unit \in {<<"a">>, <<"i">>, <<"u">>}

\* faulty variant: the vowel-ending class of the accumulated spelling is not looked at
NeedsVowel_NoClass(acc, unit) == ~IsBareVowel(unit) /\ ~EndsWith(acc, <<".">>)

\* faulty variant: the "." placeholder no longer exempts
NeedsVowel_NoDot(acc, unit) == ~EndsVowelClass(acc) /\ ~IsBareVowel(unit)

\* the per-sign test: does the spelling get an 'a' before the next unit
NeedsVowel(acc, unit) ==
    /\ ~EndsVowelClass(acc)
    /\ ~IsBareVowel(unit)
    /\ ~EndsWith(acc, <<".">>)

\* the per-sign test of the random spelling
NeedsVowelRnd(acc, unit) ==
    /\ ~fullrandom
    /\ ~EndsVowelClassRnd(acc)
    /\ ~IsBareVowel(unit)
    /\ ~EndsWith(acc, <<".">>)

\* faulty variant: the final check exempts the "." placeholder like the per-sign
\* test
FinalNeedsVowel_Dot(acc) == ~EndsVowelClass(acc) /\ ~EndsWith(acc, <<".">>)

\* the final vowel check of the spelling
FinalNeedsVowel(acc) == ~EndsVowelClass(acc)

\* the final vowel check of the random spelling
FinalNeedsVowelRnd(acc) == ~fullrandom /\ ~EndsVowelClassRndFinal(acc)

\* faulty variant: the hyphen between two units is forgotten
AppendUnit_NoHyphen(acc, unit) == acc \o unit

\* acc += '-' + unit
AppendUnit(acc, unit) == acc \o <<"-">> \o unit

\* faulty variant: the tokens are joined again without being reversed
ReverseTokens_Same(s) == Join(Split(s))

\* '-'.join(s.split('-')[::-1])
ReverseTokens(s) == Join(Reverse(Split(s)))

\* faulty variant: the list is already reversed when it is returned, so that the
\* reversal of xlitize restores the reading order
XlitizeParse_Reversed(t) == Reverse(FindAll(t))

\* the sign ids xlitize reads from the text, before the reversal
XlitizeParse(t) == FindAll(t)

\* the first sign of the reversed list is looked up before anything is decoded
FirstSignKnown(map, res) == res[1] \in DOMAIN map

XlitizeBegin(t) ==
    /\ pc = "load"
    /\ text' = t
    /\ results' = Reverse(XlitizeParse(t))
    /\ cres' = EmptyCanon
    /\ IF results' = <<>> \/ ~FirstSignKnown(xlit_map, results')
       THEN /\ xres' = EmptyResult
            /\ pc' = "canonize"
            /\ xi' = 0
            /\ str_result' = <<>>
            /\ rnd_result' = <<>>
            /\ regex_result' = <<>>
       ELSE /\ str_result' = xlit_map[results'[1]].xlit
            /\ rnd_result' = xlit_map[results'[1]].random
            /\ regex_result' = xlit_map[results'[1]].xlit
            /\ xi' = 2
            /\ xres' = EmptyResult
            /\ pc' = "xlit_loop"
    /\ UNCHANGED xlit_map
    /\ UNCHANGED fvars

\* one iteration of `for row in results[1:]`
XlitizeStep ==
    /\ pc = "xlit_loop"
    /\ xi <= Len(results)
    /\ LET row == results[xi] IN
       IF row \in DOMAIN xlit_map
       THEN LET sign == xlit_map[row]
                s1 == IF NeedsVowel(str_result, sign.xlit)
                      THEN str_result \o <<"a">> ELSE str_result
                g1 == IF NeedsVowel(str_result, sign.xlit)
                      THEN regex_result \o <<"a", "?">> ELSE regex_result
                r1 == IF NeedsVowelRnd(rnd_result, sign.random)
                      THEN rnd_result \o <<"a">> ELSE rnd_result
            IN /\ str_result' = AppendUnit(s1, sign.xlit)
               /\ rnd_result' = AppendUnit(r1, sign.random)
               /\ regex_result' = g1 \o sign.xlit
       ELSE UNCHANGED <<str_result, rnd_result, regex_result>>
    /\ xi' = xi + 1
    /\ UNCHANGED <<xlit_map, pc, text, results, xres, cres>>
    /\ UNCHANGED fvars

\* the final vowel check, after the loop
XlitizeFinal ==
    /\ pc = "xlit_loop"
    /\ xi > Len(results)
    /\ str_result' = IF FinalNeedsVowel(str_result)
                     THEN str_result \o <<"a">> ELSE str_result
    /\ regex_result' = IF FinalNeedsVowel(str_result)
                       THEN regex_result \o <<"a", "?">> ELSE regex_result
    /\ rnd_result' = IF FinalNeedsVowelRnd(rnd_result)
                     THEN rnd_result \o <<"a">> ELSE rnd_result
    /\ pc' = "xlit_final"
    /\ UNCHANGED <<xlit_map, text, results, xi, xres, cres>>
    /\ UNCHANGED fvars

\* split, reverse, join and return
XlitizeReturn ==
    /\ pc = "xlit_final"
    /\ xres' = [str |-> ReverseTokens(str_result),
                description |-> ReverseTokens(str_result),
                random |-> RandomPrefix \o ReverseTokens(rnd_result),
                regex |-> regex_result]
    /\ str_result' = ReverseTokens(str_result)
    /\ rnd_result' = ReverseTokens(rnd_result)
    /\ pc' = "canonize"
    /\ UNCHANGED <<xlit_map, text, results, xi, regex_result, cres>>
    /\ UNCHANGED fvars

(***************************************************************************)
(* canonize                                                                *)
(***************************************************************************)
RECURSIVE ExpandBreaks(_)
\* text.replace('/', '-999-999-999-999-')
ExpandBreaks(t) ==
    IF t = <<>> THEN <<>>
    ELSE (IF Head(t) = "/" THEN BreakPadding ELSE <<Head(t)>>)
         \o ExpandBreaks(Tail(t))

\* the sign ids canonize reads from the text
CanonizeParse(t) == FindAll(ExpandBreaks(t))

\* faulty variant: the characters start one codepoint too high
SignChar_OffByOne(row) == PUA + 1 + ToInt(row)

\* chr(0xE000 + int(row))
SignChar(row) == PUA + ToInt(row)

RECURSIVE CanelChars(_)
\* the characters of the digit items of canonical.split('-')
CanelChars(canel) ==
    IF canel = <<>> THEN <<>>
    ELSE (IF IsDigitStr(Head(canel)) THEN <<SignChar(Head(canel))>> ELSE <<>>)
         \o CanelChars(Tail(canel))

\* faulty variant: a listed id that is itself not canonical is replaced by its
\* own canonical field, a second substitution
SecondHop(map, a) ==
    IF a \in DOMAIN map /\ a # map[a].canonical
    THEN IF map[a].canonical = <<>>
         THEN <<>>
         ELSE CanelChars(Split(map[a].canonical))
    ELSE <<SignChar(a)>>

RECURSIVE SecondHops(_, _)
SecondHops(map, canel) ==
    IF canel = <<>> THEN <<>>
    ELSE SecondHop(map, Head(canel)) \o SecondHops(map, Tail(canel))

CanonOf_TwoHops(map, row) ==
    IF row \in DOMAIN map
    THEN IF row # map[row].canonical
         THEN IF map[row].canonical = <<>>
              THEN <<>>
              ELSE SecondHops(map, Split(map[row].canonical))
         ELSE <<SignChar(row)>>
    ELSE <<SignChar(row)>>

\* faulty variant: a sign missing from the table appends nothing
CanonOf_DropMissing(map, row) ==
    IF row \in DOMAIN map
    THEN IF row # map[row].canonical
         THEN IF map[row].canonical = <<>>
              THEN <<>>
              ELSE CanelChars(Split(map[row].canonical))
         ELSE <<SignChar(row)>>
    ELSE <<>>

\* what one sign appends to canon_result
CanonOf(map, row) ==
    IF row \in DOMAIN map
    THEN IF row # map[row].canonical
         THEN IF map[row].canonical = <<>>
              THEN <<>>
              ELSE CanelChars(Split(map[row].canonical))
         ELSE <<SignChar(row)>>
    ELSE <<SignChar(row)>>

RECURSIVE CanonLoop(_, _)
\* the loop `for row in results` of canonize, from any list of sign ids
CanonLoop(map, res) ==
    IF res = <<>> THEN [str |-> <<>>, canon |-> <<>>]
    ELSE LET rest == CanonLoop(map, Tail(res)) IN
         [str |-> <<SignChar(Head(res))>> \o rest.str,
          canon |-> CanonOf(map, Head(res)) \o rest.canon]

canonize(map, t) ==
    LET res == CanonizeParse(t) IN
    IF res = <<>> THEN EmptyCanon
    ELSE [kind |-> "dict", str |-> CanonLoop(map, res).str,
          canon |-> CanonLoop(map, res).canon, row |-> <<>>]

Canonize ==
    /\ pc = "canonize"
    /\ cres' = canonize(xlit_map, text)
    /\ pc' = "done"
    /\ UNCHANGED <<xlit_map, text, results, xi, str_result, rnd_result,
                   regex_result, xres>>
    /\ UNCHANGED fvars

\* `for el in incx`: the next inscription starts from fresh locals
NextInscription ==
    /\ pc = "done"
    /\ pc' = "load"
    /\ text' = <<>>
    /\ results' = <<>>
    /\ xi' = 0
    /\ str_result' = <<>>
    /\ rnd_result' = <<>>
    /\ regex_result' = <<>>
    /\ xres' = EmptyResult
    /\ cres' = EmptyCanon
    /\ UNCHANGED xlit_map
    /\ UNCHANGED fvars

(***************************************************************************)
(* frequency.py: inputs.  A cell of the data frame is <<>> when pandas     *)
(* reads it as null (an empty cell of the CSV file) and <<v>> otherwise.   *)
(***************************************************************************)
Null == <<>>

Some(v) == <<v>>

\* pd.isnull(cell)
IsNull(cell) == cell = Null

Suffix == <<"_", "c", "a", "n", "o", "n", "i", "c", "a", "l">>

\* the characters U+E001 and U+E002 of signs 1 and 2
CharA == PUA + 1

CharB == PUA + 2

\* the 'description' column
FDescriptions ==
    {Null,
     Some(<<"k", "a">>),
     Some(<<"t">>),
     Some(<<"k", "a", "-", "t">>),
     Some(<<"k", "a", "-", "k", "a">>),
     Some(<<"k", "a", "-">>),
     Some(<<"k", "a">> \o Suffix),
     Some(<<"k", "a", "-", "t", "-", "k", "a">>)}

\* the 'text' column
FTexts == {Null, Some(<<CharA>>), Some(<<CharB>>), Some(<<CharA, CharB>>),
           Some(<<CharB, CharA>>)}

\* the 'canonized' column
FCanonized == {Null, Some(<<CharA>>), Some(<<CharB>>), Some(<<CharA, CharB>>)}

FRows == [description : FDescriptions, text : FTexts, canonized : FCanonized]

\* the row before any row is read
NoRow == [description |-> Null, text |-> Null, canonized |-> Null]

(***************************************************************************)
(* frequency.py: formatting and comparison of strings.                     *)
(***************************************************************************)
HexDigits ==
    <<"0", "1", "2", "3", "4", "5", "6", "7", "8", "9", "a", "b", "c", "d",
      "e", "f">>

RECURSIVE HexStr(_)
\* format(n, 'x')
HexStr(n) ==
    IF n < 16 THEN <<HexDigits[n + 1]>>
    ELSE HexStr(n \div 16) \o <<HexDigits[(n % 16) + 1]>>

RECURSIVE PadLeft(_, _)
\* zero padding to a width
PadLeft(s, width) == IF Len(s) >= width THEN s ELSE PadLeft(<<"0">> \o s, width)

\* f'\\u{ord(c):04x}'
UnicodeVal(c) == <<"\\", "u">> \o PadLeft(HexStr(c), 4)

\* [f'\\u{ord(c):04x}' for c in s]
UnicodeVals(s) == [i \in 1..Len(s) |-> UnicodeVal(s[i])]

Lower ==
    <<"a", "b", "c", "d", "e", "f", "g", "h", "i", "j", "k", "l", "m", "n",
      "o", "p", "q", "r", "s", "t", "u", "v", "w", "x", "y", "z">>

\* ord(c) of the characters of substrings and escaped code points
Ord(c) ==
    IF c \in Digits THEN 48 + DigitVal(c)
    ELSE IF c = "\\" THEN 92
    ELSE IF c = "_" THEN 95
    ELSE 96 + (CHOOSE i \in 1..Len(Lower) : Lower[i] = c)

RECURSIVE StrLess(_, _)
\* a < b of two Python strings
StrLess(a, b) ==
    IF b = <<>> THEN FALSE
    ELSE IF a = <<>> THEN TRUE
    ELSE IF Head(a) = Head(b) THEN StrLess(Tail(a), Tail(b))
    ELSE Ord(Head(a)) < Ord(Head(b))

\* s.startswith(prefix)
StartsWith(s, prefix) ==
    Len(s) >= Len(prefix) /\ SubSeq(s, 1, Len(prefix)) = prefix

RECURSIVE RemoveAll(_, _)
\* s.replace(pat, '')
RemoveAll(s, pat) ==
    IF s = <<>> THEN <<>>
    ELSE IF StartsWith(s, pat) THEN RemoveAll(SubSeq(s, Len(pat) + 1, Len(s)), pat)
    ELSE <<Head(s)>> \o RemoveAll(Tail(s), pat)

(***************************************************************************)
(* process_frequency_mapping.  The defaultdict is the list of its keys in  *)
(* insertion order, each with its dict of counts.                          *)
(***************************************************************************)
HasKey(freq, key) == \E i \in 1..Len(freq) : freq[i].key = key

KeyIndex(freq, key) == CHOOSE i \in 1..Len(freq) : freq[i].key = key

\* freq[key][unicode_val] += 1
Increment(freq, key, unicode_val) ==
    IF HasKey(freq, key)
    THEN LET i == KeyIndex(freq, key)
             counts == freq[i].counts
             n == IF unicode_val \in DOMAIN counts THEN counts[unicode_val] ELSE 0
         IN [freq EXCEPT ![i].counts =
                [u \in DOMAIN counts \cup {unicode_val} |->
                    IF u = unicode_val THEN n + 1 ELSE counts[u]]]
    ELSE Append(freq, [key |-> key,
                       counts |-> [u \in {unicode_val} |-> 1]])

\* the key of the regular form of a substring
RegularKey(substring) == substring

\* f"{substring}_canonical"
CanonicalKey(substring) == substring \o Suffix

\* `if substring and unicode_val`
Counted(substring, unicode_val) == substring # <<>> /\ unicode_val # <<>>

RECURSIVE MapRegular(_, _, _, _)
\* for substring, unicode_val in zip(substrings, unicode_values), from pair i
MapRegular(freq, substrings, unicode_values, i) ==
    IF i > Len(substrings) \/ i > Len(unicode_values) THEN freq
    ELSE MapRegular(
            IF Counted(substrings[i], unicode_values[i])
            THEN Increment(freq, RegularKey(substrings[i]), unicode_values[i])
            ELSE freq,
            substrings, unicode_values, i + 1)

RECURSIVE MapCanonical(_, _, _, _)
\* for substring, unicode_val in zip(substrings, canonical_unicode), from pair i
MapCanonical(freq, substrings, canonical_unicode, i) ==
    IF i > Len(substrings) \/ i > Len(canonical_unicode) THEN freq
    ELSE MapCanonical(
            IF Counted(substrings[i], canonical_unicode[i])
            THEN Increment(freq, CanonicalKey(substrings[i]), canonical_unicode[i])
            ELSE freq,
            substrings, canonical_unicode, i + 1)

\* faulty variant: the lengths are not compared
Skipped_NoLength(r) == IsNull(r.description) \/ IsNull(r.text)

\* the row is skipped before any counter is touched
Skipped(r) ==
    \/ IsNull(r.description)
    \/ IsNull(r.text)
    \/ Len(Split(r.description[1])) # Len(UnicodeVals(r.text[1]))

\* the canonical forms of the row are mapped
CanonicalMapped(r) ==
    /\ ~IsNull(r.canonized)
    /\ Len(Split(r.description[1])) = Len(UnicodeVals(r.canonized[1]))

\* the body of the loop over df.iterrows() for one row
MapRow(freq, r) ==
    IF Skipped(r) THEN freq
    ELSE LET substrings == Split(r.description[1])
             regular == MapRegular(freq, substrings, UnicodeVals(r.text[1]), 1)
         IN IF CanonicalMapped(r)
            THEN MapCanonical(regular, substrings, UnicodeVals(r.canonized[1]), 1)
            ELSE regular

ProcessRow(r) ==
    /\ fpc = "map"
    /\ nrows < MaxRecords
    /\ nrows' = nrows + 1
    /\ frow' = r
    /\ substring_unicode_frequency' = MapRow(substring_unicode_frequency, r)
    /\ UNCHANGED <<fpc, frequency_df>>
    /\ UNCHANGED tvars

(***************************************************************************)
(* create_frequency_dataframe                                              *)
(***************************************************************************)
\* the key (-count, unicode_val) of the sort of one dict of counts
CountBefore(counts, u, v) ==
    \/ counts[u] > counts[v]
    \/ counts[u] = counts[v] /\ StrLess(u, v)

RECURSIVE SortedCounts(_, _)
\* sorted(unicode_counts.items(), key=lambda x: (-x[1], x[0])), of the keys in todo
SortedCounts(counts, todo) ==
    IF todo = {} THEN <<>>
    ELSE LET first == CHOOSE u \in todo :
                        \A v \in todo \ {u} : CountBefore(counts, u, v)
         IN <<first>> \o SortedCounts(counts, todo \ {first})

\* the rows one key of the dict appends to output_data
KeyRows(entry) ==
    LET is_canonical == EndsWith(entry.key, Suffix)
        base_substring == IF is_canonical THEN RemoveAll(entry.key, Suffix)
                          ELSE entry.key
        order == SortedCounts(entry.counts, DOMAIN entry.counts)
    IN [i \in 1..Len(order) |->
          [Substring |-> base_substring, Unicode |-> order[i],
           Frequency |-> entry.counts[order[i]], IsCanonical |-> is_canonical]]

RECURSIVE OutputData(_)
\* output_data, in the order of the keys of the dict
OutputData(freq) ==
    IF freq = <<>> THEN <<>>
    ELSE KeyRows(Head(freq)) \o OutputData(Tail(freq))

\* the order of sort_values(['Substring', 'IsCanonical', 'Frequency'],
\* ascending=[True, True, False])
RowBefore(a, b) ==
    \/ StrLess(a.Substring, b.Substring)
    \/ /\ a.Substring = b.Substring
       /\ ~a.IsCanonical
       /\ b.IsCanonical
    \/ /\ a.Substring = b.Substring
       /\ a.IsCanonical = b.IsCanonical
       /\ a.Frequency > b.Frequency

RECURSIVE InsertRow(_, _)
\* x goes before the first row that sorts after it
InsertRow(sorted, x) ==
    IF sorted = <<>> THEN <<x>>
    ELSE IF RowBefore(x, Head(sorted)) THEN <<x>> \o sorted
    ELSE <<Head(sorted)>> \o InsertRow(Tail(sorted), x)

RECURSIVE SortValues(_)
\* df.sort_values on several columns keeps the order of equal rows
SortValues(rows) ==
    IF rows = <<>> THEN <<>>
    ELSE InsertRow(SortValues(SubSeq(rows, 1, Len(rows) - 1)), rows[Len(rows)])

create_frequency_dataframe(freq) == SortValues(OutputData(freq))

Export ==
    /\ fpc = "map"
    /\ frequency_df' = create_frequency_dataframe(substring_unicode_frequency)
    /\ fpc' = "exported"
    /\ UNCHANGED <<nrows, frow, substring_unicode_frequency>>
    /\ UNCHANGED tvars

(***************************************************************************)
(* Specification of translate.py                                           *)
(***************************************************************************)
Init ==
    /\ xlit_map = [s \in {} |-> SignData(<<>>, <<>>, <<>>)]
    /\ pc = "start"
    /\ text = <<>>
    /\ results = <<>>
    /\ xi = 0
    /\ str_result = <<>>
    /\ rnd_result = <<>>
    /\ regex_result = <<>>
    /\ xres = EmptyResult
    /\ cres = EmptyCanon
    /\ fpc = "map"
    /\ nrows = 0
    /\ frow = NoRow
    /\ substring_unicode_frequency = <<>>
    /\ frequency_df = <<>>

Next ==
    \/ \E sign \in SignIds \cup {<<>>}, shape \in RowShapes :
         AddSign(sign, shape[1], CanonField(sign, shape[2]), shape[3])
    \/ \E t \in Texts : XlitizeBegin(t)
    \/ XlitizeStep
    \/ XlitizeFinal
    \/ XlitizeReturn
    \/ Canonize
    \/ NextInscription

Spec == Init /\ [][Next]_vars

(***************************************************************************)
(* Specification of frequency.py                                           *)
(***************************************************************************)
NextFreq ==
    \/ \E r \in FRows : ProcessRow(r)
    \/ Export

SpecFreq == Init /\ [][NextFreq]_vars

(***************************************************************************)
(* Properties.  Helpers of the statements first.                           *)
(***************************************************************************)
\* xlitize has returned
Returned == pc \in {"canonize", "done"}

\* number of hyphen-delimited tokens, the empty description having none
TokenCount(d) == IF d = <<>> THEN 0 ELSE Len(Split(d))

\* the ids of a list that are missing from the Sign Table
MissingIn(res) == {i \in 1..Len(res) : res[i] \notin DOMAIN xlit_map}

\* the ids of a list that are in the Sign Table, in the order of the list
KnownOf(res) == SelectSeq(res, LAMBDA r : r \in DOMAIN xlit_map)

\* xlitize decoded the inscription: the list is non-empty and starts with a
\* sign of the table
Decoded == results # <<>> /\ results[1] \in DOMAIN xlit_map

Sign1 == <<"1">>

Sign2 == <<"2">>

Count(seq, v) == Cardinality({i \in 1..Len(seq) : seq[i] = v})

\* the text with every "/" replaced by the plain delimiter "-"
SlashAsHyphen(t) == [i \in 1..Len(t) |-> IF t[i] = "/" THEN "-" ELSE t[i]]

Id999 == <<"9", "9", "9">>

----------------------------------------------------------------------------
\* C1 (as claimed): once xlitize has returned, the number of hyphen-delimited
\* tokens of description is the number of parsed ids minus the number of
\* parsed ids missing from the Sign Table.
C1_TokenCountAlways ==
    Returned =>
        TokenCount(xres.description)
            = Len(results) - Cardinality(MissingIn(results))

\* C1 (amended): the count is the number of parsed ids minus the number of
\* missing ids when the rightmost id is in the Sign Table (or nothing was
\* parsed); when the rightmost id is missing the description is empty and
\* has no token, whatever the other ids are.
C1_TokenCount ==
    Returned =>
        IF results = <<>> \/ results[1] \in DOMAIN xlit_map
        THEN TokenCount(xres.description)
                = Len(results) - Cardinality(MissingIn(results))
        ELSE TokenCount(xres.description) = 0

\* a decoded inscription of three ids, the middle one missing from the table
C1_Witness ==
    /\ pc = "done"
    /\ Len(results) = 3
    /\ MissingIn(results) = {2}
    /\ TokenCount(xres.description) = 2

----------------------------------------------------------------------------
\* Scenario 1 of the specification: {1: ka, canonical 1; 2: i, canonical 1-2}
\* and the text "1-2"
Scenario1 ==
    /\ DOMAIN xlit_map = {Sign1, Sign2}
    /\ xlit_map[Sign1].xlit = <<"k", "a">>
    /\ xlit_map[Sign1].canonical = Sign1
    /\ xlit_map[Sign2].xlit = <<"i">>
    /\ xlit_map[Sign2].canonical = <<"1", "-", "2">>
    /\ text = <<"1", "-", "2">>

\* C2 (as claimed): in scenario 1 the description is "kai".
C2_DescriptionKai ==
    (Scenario1 /\ Returned) => xres.description = <<"k", "a", "i">>

\* C2 (amended): in scenario 1 the per-sign step inserts no vowel after the
\* accumulated "i" (the spelling is "i-ka" after the loop), the final vowel
\* check appends "a", and the description is "kaa-i".
C2_Scenario1 ==
    Scenario1 =>
        /\ (pc = "xlit_loop" /\ xi = 3) => str_result = <<"i", "-", "k", "a">>
        /\ pc = "xlit_final" => str_result = <<"i", "-", "k", "a", "a">>
        /\ Returned => xres.description = <<"k", "a", "a", "-", "i">>

C2_Witness == Scenario1 /\ pc = "done"

----------------------------------------------------------------------------
\* Scenario 2 of the specification: the text "99-1", sign 99 missing from
\* the table and sign 1 in it
Scenario2 ==
    /\ text = <<"9", "9", "-", "1">>
    /\ Sign1 \in DOMAIN xlit_map
    /\ <<"9", "9">> \notin DOMAIN xlit_map

\* C3 (as claimed): in scenario 2 xlitize returns the empty result.
C3_SentinelFor99First ==
    (Scenario2 /\ Returned) => xres = EmptyResult

\* C3 (amended): in scenario 2 the rightmost id is 1, so xlitize decodes sign
\* 1, skips 99 and returns a non-empty description of the single token of
\* sign 1; the empty result is returned for "1-99", where 99 is rightmost.
C3_Scenario2 ==
    /\ (Scenario2 /\ Returned) =>
          /\ results = <<Sign1, <<"9", "9">>>>
          /\ xres # EmptyResult
          /\ xres.description \in
                {xlit_map[Sign1].xlit, xlit_map[Sign1].xlit \o <<"a">>}
    /\ (text = <<"1", "-", "9", "9">> /\ Returned) => xres = EmptyResult

C3_Witness == Scenario2 /\ pc = "done" /\ xres.description # <<>>

----------------------------------------------------------------------------
\* a parsed sign of the table whose canonical field is blank and differs
\* from its id
BlankCanonical(r) ==
    /\ r \in DOMAIN xlit_map
    /\ xlit_map[r].canonical # r
    /\ xlit_map[r].canonical = <<>>

\* C4: when canonize meets a sign of the table whose canonical field is
\* blank, it returns the bare id of that sign and not the structure.
C4_ShortCircuit ==
    (pc = "done" /\ \E i \in 1..Len(CanonizeParse(text)) :
                        BlankCanonical(CanonizeParse(text)[i]))
        => /\ cres.kind = "id"
           /\ BlankCanonical(cres.row)

----------------------------------------------------------------------------
\* C5 (as claimed): both parsers read four additional 999 entries for each
\* "/" of the text, so that xlitize and canonize see lists of one length.
C5_BothExpand ==
    pc = "done" =>
        LET plain == FindAll(SlashAsHyphen(text))
            extra == 4 * Count(text, "/")
        IN /\ Len(cres.str) = Len(plain) + extra
           /\ Count(cres.str, PUA + 999) = Count(plain, Id999) + extra
           /\ Len(results) = Len(plain) + extra
           /\ Count(results, Id999) = Count(plain, Id999) + extra
           /\ Len(results) = Len(cres.str)

\* C5 (amended): canonize alone expands "/": its list has exactly four
\* additional 999 entries for each "/"; xlitize reads the text as it is,
\* "/" being a plain delimiter, so its list is shorter by four per "/".
C5_CanonizeExpands ==
    pc = "done" =>
        LET plain == FindAll(SlashAsHyphen(text))
            extra == 4 * Count(text, "/")
        IN /\ Len(cres.str) = Len(plain) + extra
           /\ Count(cres.str, PUA + 999) = Count(plain, Id999) + extra
           /\ results = Reverse(plain)
           /\ Len(cres.str) = Len(results) + extra

\* a text with two break markers and a sign has been processed
C5_Witness ==
    /\ pc = "done"
    /\ Count(text, "/") = 2
    /\ Len(results) = 1
    /\ Len(cres.str) = 9

----------------------------------------------------------------------------
\* the sign is absent from the table or its canonical field is its own id
SelfCanonical(r) == r \notin DOMAIN xlit_map \/ xlit_map[r].canonical = r

\* C6: when every parsed sign is self-canonical, canonicalCodepoints equals
\* rawCodepoints.
C6_SelfCanonicalIdentity ==
    (pc = "done" /\ \A i \in 1..Len(CanonizeParse(text)) :
                        SelfCanonical(CanonizeParse(text)[i]))
        => cres.canon = cres.str

\* three signs, all self-canonical: one of the table, one missing and a break
C6_Witness ==
    /\ pc = "done"
    /\ \A i \in 1..Len(CanonizeParse(text)) : SelfCanonical(CanonizeParse(text)[i])
    /\ \E i \in 1..Len(CanonizeParse(text)) : CanonizeParse(text)[i] \in DOMAIN xlit_map
    /\ \E i \in 1..Len(CanonizeParse(text)) : CanonizeParse(text)[i] = <<"9", "9">>
    /\ Count(text, "/") = 1
    /\ cres.canon = cres.str
    /\ Len(cres.str) = 6

----------------------------------------------------------------------------
\* the unit appended last before position i of the reversed list
LastUnit(i) ==
    LET j == CHOOSE k \in 1..(i - 1) :
                /\ results[k] \in DOMAIN xlit_map
                /\ \A m \in (k + 1)..(i - 1) : results[m] \notin DOMAIN xlit_map
    IN xlit_map[results[j]].xlit

\* the three exemptions, read on the two units alone
Exempt(X, Y) ==
    \/ /\ Len(X) >= 1
       /\ X[Len(X)] \in {"i", "u"}
    \/ /\ Len(X) >= 2
       /\ X[Len(X) - 1] = "a"
       /\ X[Len(X)] \in {"n", "s"}
    \/ Y \in {<<"a">>, <<"i">>, <<"u">>}
    \/ /\ Len(X) >= 1
       /\ X[Len(X)] = "."

\* C7: in every per-sign step that appends a unit Y after the unit X, the
\* spelling gets "a" between them iff no exemption holds of X and Y, whatever
\* was accumulated before X and whatever follows Y.
C7_VowelInsertion ==
    [][(pc = "xlit_loop" /\ xi' = xi + 1 /\ results[xi] \in DOMAIN xlit_map) =>
          LET X == LastUnit(xi)
              Y == xlit_map[results[xi]].xlit
          IN /\ ~Exempt(X, Y) =>
                  /\ str_result' = str_result \o <<"a", "-">> \o Y
                  /\ regex_result' = regex_result \o <<"a", "?">> \o Y
             /\ Exempt(X, Y) =>
                  /\ str_result' = str_result \o <<"-">> \o Y
                  /\ regex_result' = regex_result \o Y]_vars

\* three signs decoded: "a" inserted after the first "ka", none before "i"
C7_Witness ==
    /\ pc = "xlit_loop"
    /\ xi = 4
    /\ str_result = <<"k", "a", "a", "-", "k", "a", "-", "i">>

----------------------------------------------------------------------------
\* C10: the tokens of description are the tokens of the accumulated spelling
\* in reverse order, and the i-th token of description is the unit of the
\* i-th sign of the text that is in the table, with or without the inserted
\* "a".
C10_Reversal ==
    /\ [][(pc = "xlit_final" /\ pc' = "canonize") =>
            /\ Reverse(Split(xres'.description)) = Split(str_result)
            /\ Len(Split(str_result)) = Len(KnownOf(results))
            /\ \A i \in 1..Len(KnownOf(results)) :
                  Split(str_result)[i] \in
                     {xlit_map[KnownOf(results)[i]].xlit,
                      xlit_map[KnownOf(results)[i]].xlit \o <<"a">>}]_vars
    /\ [](( Returned /\ Decoded) =>
            LET known == KnownOf(Reverse(results))
                tokens == Split(xres.description)
            IN /\ Len(tokens) = Len(known)
               /\ \A i \in 1..Len(known) :
                     tokens[i] \in {xlit_map[known[i]].xlit,
                                    xlit_map[known[i]].xlit \o <<"a">>})

\* "1-99-2" with 1 = ka and 2 = i: the description is "kaa-i"
C10_Witness ==
    /\ pc = "done"
    /\ text = <<"1", "-", "9", "9", "-", "2">>
    /\ Decoded
    /\ Sign1 \in DOMAIN xlit_map
    /\ xres.description = <<"k", "a", "a", "-", "i">>
----------------------------------------------------------------------------
\* the count of a cell of the frequency table, 0 when the cell does not exist
Cell(freq, key, u) ==
    IF HasKey(freq, key) /\ u \in DOMAIN freq[KeyIndex(freq, key)].counts
    THEN freq[KeyIndex(freq, key)].counts[u]
    ELSE 0

Keys(freq) == {freq[i].key : i \in 1..Len(freq)}

\* the escaped code points of the model
AllUnicode == {UnicodeVal(CharA), UnicodeVal(CharB)}

\* process_frequency_mapping has just read a row
RowRead == nrows' = nrows + 1

\* the description and the text of the row are there and differ in length
Mismatch(r) ==
    /\ r.description # Null
    /\ r.text # Null
    /\ Len(Split(r.description[1])) # Len(r.text[1])

\* the description and the text of the row are there and agree in length
Aligned(r) ==
    /\ r.description # Null
    /\ r.text # Null
    /\ Len(Split(r.description[1])) = Len(r.text[1])

\* the canonical column of the row is absent or of another length, so that
\* only regular increments are made
RegularOnly(r) ==
    \/ r.canonized = Null
    \/ Len(r.canonized[1]) # Len(Split(r.description[1]))

\* the positions of an aligned row where the substring is s and the escaped
\* character is u
Positions(r, s, u) ==
    {i \in 1..Len(r.text[1]) :
        Split(r.description[1])[i] = s /\ UnicodeVal(r.text[1][i]) = u}

----------------------------------------------------------------------------
\* the order of the export: substring ascending, then regular before
\* canonical, then frequency descending, then code point ascending
InExportOrder(a, b) ==
    \/ StrLess(a.Substring, b.Substring)
    \/ /\ a.Substring = b.Substring
       /\ ~a.IsCanonical
       /\ b.IsCanonical
    \/ /\ a.Substring = b.Substring
       /\ a.IsCanonical = b.IsCanonical
       /\ a.Frequency > b.Frequency
    \/ /\ a.Substring = b.Substring
       /\ a.IsCanonical = b.IsCanonical
       /\ a.Frequency = b.Frequency
       /\ (a.Unicode = b.Unicode \/ StrLess(a.Unicode, b.Unicode))

\* C9: the exported rows are in the order of the export, rows of equal
\* substring, flag and frequency being in ascending order of code point.
C9_ExportOrder ==
    fpc = "exported" =>
        \A i, j \in 1..Len(frequency_df) :
            i < j => InExportOrder(frequency_df[i], frequency_df[j])
----------------------------------------------------------------------------
\* the sign ids of the text in reading order (left to right)
IdsOf(t) == FindAll(t)

\* the rightmost sign id of the text is missing from the Sign Table
RightmostMissing ==
    /\ IdsOf(text) # <<>>
    /\ IdsOf(text)[Len(IdsOf(text))] \notin DOMAIN xlit_map

----------------------------------------------------------------------------
\* the codepoint 0xE000 + n of the sign ids n that the texts can hold
CodepointOf(id) ==
    CASE id = Sign1 -> 57345
      [] id = Sign2 -> 57346
      [] id = <<"9", "9">> -> 57443
      [] id = Id999 -> 58343
      [] OTHER -> 0

RECURSIVE CanonWithFallback(_)
\* what the listed ids append to the canonical string when an id missing
\* from the Sign Table appends its raw codepoint
CanonWithFallback(ids) ==
    IF ids = <<>> THEN <<>>
    ELSE (IF Head(ids) \in DOMAIN xlit_map
          THEN CanonOf(xlit_map, Head(ids))
          ELSE <<CodepointOf(Head(ids))>>)
         \o CanonWithFallback(Tail(ids))

----------------------------------------------------------------------------
\* the positions of a row with a canonical column of the length of the
\* description where the substring is s and the escaped canonical character
\* is u
CanonicalPositions(r, s, u) ==
    {i \in 1..Len(r.canonized[1]) :
        Split(r.description[1])[i] = s /\ UnicodeVal(r.canonized[1][i]) = u}

\* the number of positions of one record that count for (s, u) under the
\* flag: none of a skipped record, the aligned positions of the text for the
\* regular flag, those of the canonical column for the canonical flag
PositionCount(r, s, u, flag) ==
    IF ~Aligned(r) THEN 0
    ELSE IF ~flag THEN Cardinality(Positions(r, s, u))
    ELSE IF RegularOnly(r) THEN 0
    ELSE Cardinality(CanonicalPositions(r, s, u))

\* the rows of the export for (s, u) under the flag
ExportedRows(s, u, flag) ==
    {i \in 1..Len(frequency_df) :
        /\ frequency_df[i].Substring = s
        /\ frequency_df[i].Unicode = u
        /\ frequency_df[i].IsCanonical = flag}

\* the non-empty substrings of a record and of the export
Substrings(r) ==
    ({frequency_df[i].Substring : i \in 1..Len(frequency_df)}
       \cup (IF r.description = Null THEN {}
             ELSE {Split(r.description[1])[i] :
                     i \in 1..Len(Split(r.description[1]))}))
    \ {<<>>}

\* C13 (as claimed, for a collection of one record): in the export of one
\* record, for every non-empty substring s and character u, the regular row
\* (s, u) carries the number of aligned positions of the text where the
\* substring is s and the character u, the canonical row (s, u) the number
\* of such positions of the canonical column, and there is no row for a
\* number of zero: no count appears under the other flag or another
\* substring.
C13_CountsPerFlag ==
    (fpc = "exported" /\ nrows = 1) =>
        \A s \in Substrings(frow), u \in AllUnicode, flag \in BOOLEAN :
            LET n == PositionCount(frow, s, u, flag) IN
            IF n = 0 THEN ExportedRows(s, u, flag) = {}
            ELSE \E i \in 1..Len(frequency_df) :
                    /\ ExportedRows(s, u, flag) = {i}
                    /\ frequency_df[i].Frequency = n
----------------------------------------------------------------------------
\* C14 (as claimed): every sign of the Sign Table has a non-empty spelling,
\* a row whose xlit field is blank or absent having the spelling ".".
C14_SpellingNonEmpty ==
    \A s \in DOMAIN xlit_map : xlit_map[s].xlit # <<>>
----------------------------------------------------------------------------
\* xlitize makes its final vowel check
FinalCheck == pc = "xlit_loop" /\ pc' = "xlit_final"

\* the string ends in one of the characters, or in "an" or "as"
EndsIn(X, chars) ==
    \/ /\ Len(X) >= 1
       /\ X[Len(X)] \in chars
    \/ /\ Len(X) >= 2
       /\ X[Len(X) - 1] = "a"
       /\ X[Len(X)] \in {"n", "s"}

EndsWithDot(X) == Len(X) >= 1 /\ X[Len(X)] = "."

\* C15 (as claimed): the final check appends "a" to the spelling, and "a?"
\* to the search pattern, iff the spelling neither ends in i, u, an or as nor
\* ends with "."; it appends "a" to the random spelling iff that neither ends
\* in the class of its per-sign test (i, u, e, o, f, F, x, X, an, as) nor
\* ends with ".".
C15_SameTestAsPerSign ==
    [][FinalCheck =>
        LET keep == EndsIn(str_result, {"i", "u"}) \/ EndsWithDot(str_result)
            keepRnd == \/ EndsIn(rnd_result,
                                 {"i", "u", "e", "o", "f", "F", "x", "X"})
                       \/ EndsWithDot(rnd_result)
        IN /\ str_result' = IF keep THEN str_result
                            ELSE str_result \o <<"a">>
           /\ regex_result' = IF keep THEN regex_result
                              ELSE regex_result \o <<"a", "?">>
           /\ rnd_result' = IF keepRnd THEN rnd_result
                            ELSE rnd_result \o <<"a">>]_vars

\* C15 (amended): the final check looks at the vowel-ending class alone and
\* the "." placeholder does not exempt.  It appends "a" to the spelling, and
\* "a?" to the search pattern, iff the spelling does not end in i, u, an or
\* as, so that a spelling ending with "." gets "a"; it appends "a" to the
\* random spelling iff that does not end in i, u, e, o, an or as.
C15_FinalVowelCheck ==
    [][FinalCheck =>
        LET keep == EndsIn(str_result, {"i", "u"})
            keepRnd == EndsIn(rnd_result, {"i", "u", "e", "o"})
        IN /\ str_result' = IF keep THEN str_result
                            ELSE str_result \o <<"a">>
           /\ regex_result' = IF keep THEN regex_result
                              ELSE regex_result \o <<"a", "?">>
           /\ rnd_result' = IF keepRnd THEN rnd_result
                            ELSE rnd_result \o <<"a">>]_vars

\* the final check has appended "a" to a spelling that ended with "."
C15_Witness ==
    /\ pc = "xlit_final"
    /\ Len(str_result) >= 2
    /\ str_result[Len(str_result) - 1] = "."
    /\ str_result[Len(str_result)] = "a"
----------------------------------------------------------------------------
\* the sign is in the Sign Table with a canonical field that is not blank and
\* is not the sign itself
Substituted(id) ==
    /\ id \in DOMAIN xlit_map
    /\ xlit_map[id].canonical # <<>>
    /\ xlit_map[id].canonical # id

\* the codepoints of the ids listed in a canonical field, in the listed order
ListedCodepoints(canonical) ==
    [i \in 1..Len(Split(canonical)) |-> CodepointOf(Split(canonical)[i])]

RECURSIVE CanonOneHop(_)
\* what the listed ids append to the canonical string when a substituted sign
\* appends the codepoints of the ids its canonical field lists
CanonOneHop(ids) ==
    IF ids = <<>> THEN <<>>
    ELSE (IF Substituted(Head(ids))
          THEN ListedCodepoints(xlit_map[Head(ids)].canonical)
          ELSE CanonOf(xlit_map, Head(ids)))
         \o CanonOneHop(Tail(ids))

\* C16: a sign of the table whose canonical field is not blank and differs
\* from its id puts in the canonical string exactly the codepoints
\* 0xE000 + k of the ids k its canonical field lists, in the listed order;
\* the canonical fields of those ids are not looked up, so a listed id that
\* is itself substituted stays as it is.
C16_OneHopOnly ==
    pc = "done" => cres.canon = CanonOneHop(CanonizeParse(text))

\* signs 1 and 2 both have the canonical field "1-2", so that both listed
\* ids are themselves substituted; the text "1" gives the characters of 1
\* and 2 and nothing more
C16_Witness ==
    /\ pc = "done"
    /\ text = <<"1">>
    /\ Substituted(Sign1)
    /\ Substituted(Sign2)
    /\ xlit_map[Sign1].canonical = <<"1", "-", "2">>
    /\ cres.canon = <<57345, 57346>>

====
